---- MODULE Spec2Model ----
(***************************************************************************)
(* State-machine model of RAGProcessor (src/rag_processor.py): the         *)
(* enrichment / embedding / batch / semantic-search pipeline.              *)
(*                                                                         *)
(* A Python dict is a TLA+ function whose domain is its set of keys;       *)
(* dict.update and the key assignment d[k] = v are @@ with the new keys on *)
(* the left; dict.get(k, default) is Get.  An element of the companies     *)
(* list is a JSON value: an object (a mapping) or something else (null).   *)
(* A list of floats (an embedding) is kept sparse: [dim, lead] stands for  *)
(* the list of length dim that starts with the sequence lead and is 0 from *)
(* there on.  A similarity is kept exact: the pair [num, den2] stands for  *)
(* the real number num / sqrt(den2).                                       *)
(***************************************************************************)
EXTENDS Integers, Sequences, FiniteSets, TLC

VARIABLES
    companies,           \* self.companies: the input records
    enriched_companies,  \* self.enriched_companies: the enriched collection
    pc,                  \* position of batch_enrich_companies
    batch_size,          \* argument of the run in progress
    i,                   \* the outer loop's range value (0-based)
    k,                   \* 1-based position of `company` in `batch`
    enhanced_company,    \* local of the loop body
    results,             \* value returned by semantic_search, when it was the
                         \* latest call on the processor
    lastQuery,           \* history: <<[embedding, top_k]>> of that search
    trace,               \* history: one entry per element of enriched_companies
    cur,                 \* history: how the record in progress was built so far
    fresh,               \* history: the collection was empty when the run started
    gap,                 \* history: delay slept since the last record was appended
    faults               \* history: number of unexpected exceptions raised

vars == <<companies, enriched_companies, pc, batch_size, i, k, enhanced_company,
          results, lastQuery, trace, cur, fresh, gap, faults>>

----------------------------------------------------------------------------
(* Bounds of the model *)

MaxRecords == 2
MaxStored == 2
MaxFaults == 1

(* the arguments the calls are tried with *)
BatchSizes == {1, 2, 3}
TopKs == {0, 1, 2}

(* Program constants *)

D == 1536
ShortDelay == 5
LongDelay == 20
ThresholdNum == 3
ThresholdDen == 10

----------------------------------------------------------------------------
(* Python dicts *)

EmptyDict == [key \in {} |-> ""]

Get(d, key, default) == IF key \in DOMAIN d THEN d[key] ELSE default

(* JSON values of the companies list *)

JsonObject(d) == [type |-> "object", members |-> d]

JsonNull == [type |-> "null", members |-> EmptyDict]

IsMapping(company) == company.type = "object"

RecFull ==
    ("companyName" :> "A") @@ ("companyType" :> "school")
        @@ ("region" :> "north") @@ ("comment" :> "c")

RecNameOnly == ("companyName" :> "B")

MappingRecords == {JsonObject(RecFull), JsonObject(RecNameOnly)}

AnyRecords == MappingRecords \cup {JsonNull}

----------------------------------------------------------------------------
(* Embeddings *)

Vec(a, b, c, d) == [dim |-> D, lead |-> <<a, b, c, d>>]

VecLen(v) == v.dim

ZeroVectorShort == [dim |-> D - 1, lead |-> <<>>]

(* [0.0] * 1536 *)
ZeroVector == [dim |-> D, lead |-> <<>>]

IsZero(v) == \A n \in DOMAIN v.lead : v.lead[n] = 0

E1 == Vec(1, 0, 0, 0)
E2 == Vec(3, 9, 3, 1)
E3 == Vec(1, 1, 0, 0)

(* what the embedding capability answers: an error, or a non-zero vector *)
StoredEmbeddingOutcomes ==
    {[ok |-> FALSE, embedding |-> ZeroVector],
     [ok |-> TRUE, embedding |-> E1],
     [ok |-> TRUE, embedding |-> E2]}

QueryEmbeddingOutcomes ==
    StoredEmbeddingOutcomes \cup {[ok |-> TRUE, embedding |-> E3]}

generate_embedding(outcome) ==
    IF outcome.ok THEN outcome.embedding ELSE ZeroVector

----------------------------------------------------------------------------
(* Enrichment *)

FullJson ==
    ("aiDescription" :> "desc") @@ ("projectTypes" :> <<"p1", "p2">>)
        @@ ("architectSpecialties" :> <<"s1">>) @@ ("complexity" :> "high")
        @@ ("typicalScale" :> "large") @@ ("collaborationStyle" :> "style")
        @@ ("marketTrends" :> "trends")

PartialJson == ("aiDescription" :> "desc") @@ ("complexity" :> "low")

(* what the enrichment capability answers: a call error, a text that is no *)
(* JSON, or a JSON object                                                  *)
AiResponses ==
    {[called |-> FALSE, parsed |-> FALSE, ai_data |-> EmptyDict],
     [called |-> TRUE, parsed |-> FALSE, ai_data |-> EmptyDict],
     [called |-> TRUE, parsed |-> TRUE, ai_data |-> FullJson],
     [called |-> TRUE, parsed |-> TRUE, ai_data |-> PartialJson]}

EnrichmentFields ==
    {"aiDescription", "projectTypes", "architectSpecialties", "complexity",
     "typicalScale", "collaborationStyle", "marketTrends"}

(* the f-string of lines 97-106, as the sequence of its interpolated parts *)
SearchableTextAi(c, ai_data) ==
    <<Get(c, "companyName", ""), Get(c, "companyType", ""), Get(c, "region", ""),
      Get(ai_data, "aiDescription", ""), Get(ai_data, "projectTypes", <<>>),
      Get(ai_data, "architectSpecialties", <<>>),
      Get(ai_data, "collaborationStyle", ""), Get(ai_data, "marketTrends", "")>>

FallbackMutIndexing(c) ==
    IF {"companyType", "region", "companyName"} \subseteq DOMAIN c
    THEN [raised |-> FALSE,
          value |-> ("aiDescription" :> <<"company of type ", c["companyType"],
                                          " located in ", c["region"]>>)
                    @@ ("projectTypes" :> <<>>) @@ ("architectSpecialties" :> <<>>)
                    @@ ("complexity" :> "medium") @@ ("typicalScale" :> "medium")
                    @@ ("searchableText" :> <<c["companyName"], c["companyType"],
                                              c["region"]>>)
                    @@ c]
    ELSE [raised |-> TRUE, value |-> EmptyDict]

(* the except branch, for a mapping: lines 114-123 *)
Fallback(c) ==
    [raised |-> FALSE,
     value |-> ("aiDescription" :> <<"company of type ",
                                     Get(c, "companyType", "unknown"),
                                     " located in ", Get(c, "region", "unknown")>>)
               @@ ("projectTypes" :> <<>>) @@ ("architectSpecialties" :> <<>>)
               @@ ("complexity" :> "medium") @@ ("typicalScale" :> "medium")
               @@ ("searchableText" :> <<Get(c, "companyName", ""),
                                         Get(c, "companyType", ""),
                                         Get(c, "region", "")>>)
               @@ c]

(* a non-mapping has no .get: line 49 raises, and so does line 112 in the  *)
(* handler, so the error leaves the function                               *)
enrich_company_description(company, response) ==
    IF ~IsMapping(company)
    THEN [raised |-> TRUE, value |-> EmptyDict]
    ELSE IF response.called /\ response.parsed
         THEN [raised |-> FALSE,
               value |-> ("searchableText" :>
                              SearchableTextAi(company.members, response.ai_data))
                         @@ response.ai_data @@ company.members]
         ELSE Fallback(company.members)

----------------------------------------------------------------------------
(* Cosine similarity and the search *)

RECURSIVE SumTo(_, _, _)
SumTo(n, a, b) ==
    IF n = 0 THEN 0 ELSE a.lead[n] * b.lead[n] + SumTo(n - 1, a, b)

(* the components behind either lead contribute 0 *)
Dot(a, b) ==
    SumTo(IF Len(a.lead) < Len(b.lead) THEN Len(a.lead) ELSE Len(b.lead), a, b)

CosineMutZeroNorm(a, b) ==
    IF Dot(a, a) = 0 \/ Dot(b, b) = 0
    THEN [num |-> 1, den2 |-> 1]
    ELSE [num |-> Dot(a, b), den2 |-> Dot(a, a) * Dot(b, b)]

(* sklearn's cosine_similarity of two rows (line 184): the dot product of  *)
(* the normalised rows, where a row of norm zero is left as it is, so that *)
(* its similarity to anything is 0                                         *)
Cosine(a, b) ==
    IF Dot(a, a) = 0 \/ Dot(b, b) = 0
    THEN [num |-> 0, den2 |-> 1]
    ELSE [num |-> Dot(a, b), den2 |-> Dot(a, a) * Dot(b, b)]

(* s > t for s = s.num / sqrt(s.den2), t likewise *)
SimGT(s, t) ==
    IF s.num >= 0 /\ t.num >= 0
    THEN s.num * s.num * t.den2 > t.num * t.num * s.den2
    ELSE IF s.num >= 0 THEN TRUE
    ELSE IF t.num >= 0 THEN FALSE
    ELSE s.num * s.num * t.den2 < t.num * t.num * s.den2

Threshold == [num |-> ThresholdNum, den2 |-> ThresholdDen * ThresholdDen]

(* line 189 *)
Passes(sim) == SimGT(sim, Threshold)

(* lines 190-191: the score goes on a copy *)
CompanyWithScore(company, sim) == ("similarity_score" :> sim) @@ company

(* lines 187-192: the loop that filters and scores, in collection order *)
RECURSIVE Scored(_, _, _)
Scored(coll, q, n) ==
    IF n = 0 THEN <<>>
    ELSE LET sim == Cosine(q, coll[n]["embedding"])
         IN  IF Passes(sim)
             THEN Append(Scored(coll, q, n - 1), CompanyWithScore(coll[n], sim))
             ELSE Scored(coll, q, n - 1)

(* x goes behind every element whose score is not smaller: what a stable   *)
(* sort with reverse=True does to equal keys                               *)
RECURSIVE InsertDesc(_, _)
InsertDesc(sorted, x) ==
    IF sorted = <<>> THEN <<x>>
    ELSE IF SimGT(x["similarity_score"], Head(sorted)["similarity_score"])
         THEN <<x>> \o sorted
         ELSE <<Head(sorted)>> \o InsertDesc(Tail(sorted), x)

RECURSIVE SortDescFrom(_, _, _)
SortDescFrom(sorted, rest, n) ==
    IF n > Len(rest) THEN sorted
    ELSE SortDescFrom(InsertDesc(sorted, rest[n]), rest, n + 1)

SortMutAscending(rs) ==
    LET desc == SortDescFrom(<<>>, rs, 1)
    IN  [n \in 1..Len(desc) |-> desc[Len(desc) + 1 - n]]

(* line 195 *)
SortDesc(rs) == SortDescFrom(<<>>, rs, 1)

(* line 196: results[:top_k], for top_k >= 0 *)
Slice(rs, top_k) == SubSeq(rs, 1, IF top_k < Len(rs) THEN top_k ELSE Len(rs))

SameLengths(coll, q) ==
    \A n \in 1..Len(coll) : VecLen(coll[n]["embedding"]) = VecLen(q)

StoreMutScoreInPlace(coll, q) ==
    [n \in 1..Len(coll) |->
        IF Passes(Cosine(q, coll[n]["embedding"]))
        THEN CompanyWithScore(coll[n], Cosine(q, coll[n]["embedding"]))
        ELSE coll[n]]

(* what the search leaves in self.enriched_companies: it writes to copies  *)
(* only (line 190)                                                         *)
StoreAfterSearch(coll, q) == coll

(* the value semantic_search returns, given the query's embedding *)
semantic_search(coll, q, top_k) ==
    IF coll = <<>> THEN <<>>
    ELSE IF ~SameLengths(coll, q) THEN <<>>
    ELSE Slice(SortDesc(Scored(coll, q, Len(coll))), top_k)

----------------------------------------------------------------------------
(* The processor *)

RECURSIVE SeqsUpTo(_, _)
SeqsUpTo(S, n) ==
    IF n = 0 THEN {<<>>}
    ELSE SeqsUpTo(S, n - 1) \cup
         {Append(s, x) : s \in {t \in SeqsUpTo(S, n - 1) : Len(t) = n - 1}, x \in S}

Resting == {"idle", "done", "cancelled", "aborted"}

Running == {"enrich", "embed", "append", "sleep", "batchend"}

(* the state after __init__ (lines 25-26) and load_company_data (line 34) *)
InitWith(records) ==
    /\ companies \in SeqsUpTo(records, MaxRecords)
    /\ enriched_companies = <<>>
    /\ pc = "idle"
    /\ batch_size = 1
    /\ i = 0
    /\ k = 1
    /\ enhanced_company = EmptyDict
    /\ results = <<>>
    /\ lastQuery = <<>>
    /\ trace = <<>>
    /\ cur = [path |-> "none", embFailed |-> FALSE, fields |-> {}]
    /\ fresh = TRUE
    /\ gap = 0
    /\ faults = 0

Init == InitWith(MappingRecords)

InitF == InitWith(AnyRecords)

(* line 144: batch = self.companies[i:i + batch_size] *)
Batch == SubSeq(companies, i + 1,
                IF i + batch_size < Len(companies) THEN i + batch_size
                ELSE Len(companies))

NoLocals ==
    /\ enhanced_company' = EmptyDict
    /\ cur' = [path |-> "none", embFailed |-> FALSE, fields |-> {}]

(* the method is left (it returns, or an exception leaves it): its         *)
(* argument and its locals are gone                                        *)
Leave(how) ==
    /\ pc' = how
    /\ batch_size' = 1
    /\ i' = 0
    /\ k' = 1
    /\ gap' = 0

(* the inner loop's next iteration, or the end of the batch *)
NextCompany ==
    IF k < Len(Batch)
    THEN /\ k' = k + 1
         /\ pc' = "enrich"
    ELSE /\ k' = k
         /\ pc' = "batchend"

(* lines 138-146: the call, and the first step of the loops.  A run is    *)
(* started on a new processor or after a run that returned; one that was   *)
(* cancelled or that raised ends the program (main, lines 286-288).        *)
StartRun ==
    /\ pc \in {"idle", "done"}
    /\ Len(enriched_companies) + Len(companies) <= MaxStored
    /\ IF Len(companies) = 0
       THEN Leave("done")
       ELSE /\ \E bs \in BatchSizes : batch_size' = bs
            /\ i' = 0
            /\ k' = 1
            /\ pc' = "enrich"
            /\ gap' = 0
    /\ fresh' = (enriched_companies = <<>>)
    /\ results' = <<>>
    /\ lastQuery' = <<>>
    /\ NoLocals
    /\ UNCHANGED <<companies, enriched_companies, trace, faults>>

(* lines 160-165: the handler of the loop body.  Line 161 calls company.get *)
(* again, which raises for a non-mapping: that error leaves the method.     *)
Handler ==
    /\ IF IsMapping(Batch[k])
       THEN /\ enriched_companies' =
                   Append(enriched_companies,
                          ("embedding" :> ZeroVector) @@ Batch[k].members)
            /\ trace' = Append(trace, [src |-> i + k, path |-> "item",
                                       embFailed |-> FALSE, fields |-> {}])
            /\ gap' = 0
            /\ NextCompany
            /\ UNCHANGED <<batch_size, i>>
       ELSE /\ Leave("aborted")
            /\ UNCHANGED <<enriched_companies, trace>>
    /\ NoLocals
    /\ UNCHANGED <<companies, results, lastQuery, fresh>>

(* line 149 *)
Enrich ==
    /\ pc = "enrich"
    /\ \E response \in AiResponses :
          LET r == enrich_company_description(Batch[k], response)
          IN  IF r.raised
              THEN Handler
              ELSE /\ enhanced_company' = r.value
                   /\ cur' = [path |-> IF response.called /\ response.parsed
                                       THEN "ai" ELSE "fallback",
                              embFailed |-> FALSE,
                              fields |-> DOMAIN response.ai_data]
                   /\ pc' = "embed"
                   /\ UNCHANGED <<companies, enriched_companies, batch_size, i, k,
                                  results, lastQuery, trace, fresh, gap>>
    /\ UNCHANGED faults

(* lines 152-153 *)
Embed ==
    /\ pc = "embed"
    /\ \E outcome \in StoredEmbeddingOutcomes :
          /\ enhanced_company' =
                 ("embedding" :> generate_embedding(outcome)) @@ enhanced_company
          /\ cur' = [cur EXCEPT !.embFailed = ~outcome.ok]
    /\ pc' = "append"
    /\ UNCHANGED <<companies, enriched_companies, batch_size, i, k, results,
                   lastQuery, trace, fresh, gap, faults>>

AppendMutPrepend ==
    /\ pc = "append"
    /\ enriched_companies' = <<enhanced_company>> \o enriched_companies
    /\ trace' = <<[src |-> i + k, path |-> cur.path, embFailed |-> cur.embFailed,
                    fields |-> cur.fields]>> \o trace
    /\ gap' = 0
    /\ pc' = "sleep"
    /\ UNCHANGED <<companies, batch_size, i, k, enhanced_company, results,
                   lastQuery, cur, fresh, faults>>

(* line 155 *)
AppendCompany ==
    /\ pc = "append"
    /\ enriched_companies' = Append(enriched_companies, enhanced_company)
    /\ trace' = Append(trace, [src |-> i + k, path |-> cur.path,
                               embFailed |-> cur.embFailed,
                               fields |-> cur.fields])
    /\ gap' = 0
    /\ pc' = "sleep"
    /\ UNCHANGED <<companies, batch_size, i, k, enhanced_company, results,
                   lastQuery, cur, fresh, faults>>

(* line 158 *)
Sleep ==
    /\ pc = "sleep"
    /\ gap' = gap + ShortDelay
    /\ NextCompany
    /\ NoLocals
    /\ UNCHANGED <<companies, enriched_companies, batch_size, i, results,
                   lastQuery, trace, fresh, faults>>

(* lines 167-170, and the outer loop's next iteration (line 143) *)
BatchEnd ==
    /\ pc = "batchend"
    /\ IF i + batch_size < Len(companies)
       THEN /\ gap' = gap + LongDelay
            /\ i' = i + batch_size
            /\ k' = 1
            /\ pc' = "enrich"
            /\ UNCHANGED batch_size
       ELSE Leave("done")
    /\ UNCHANGED <<companies, enriched_companies, enhanced_company, results,
                   lastQuery, trace, cur, fresh, faults>>

(* an exception that is no Exception (KeyboardInterrupt) ends the run where *)
(* it is: neither handler catches it                                        *)
Cancel ==
    /\ pc \in Running
    /\ Leave("cancelled")
    /\ NoLocals
    /\ UNCHANGED <<companies, enriched_companies, results, lastQuery, trace, fresh,
                   faults>>

(* an Exception that one of the statements of lines 152-158 raises past    *)
(* the two services' own handlers (a MemoryError, an exception raised by a *)
(* signal handler while time.sleep waits): the handler of line 160 takes   *)
(* it, also when the record was appended already                           *)
Fault ==
    /\ pc \in {"embed", "append", "sleep"}
    /\ faults < MaxFaults
    /\ faults' = faults + 1
    /\ Handler

(* lines 172-200 *)
Search ==
    /\ pc \in Resting
    /\ \E outcome \in QueryEmbeddingOutcomes, top_k \in TopKs :
          LET q == generate_embedding(outcome)
          IN  /\ results' = semantic_search(enriched_companies, q, top_k)
              /\ enriched_companies' = StoreAfterSearch(enriched_companies, q)
              /\ lastQuery' = <<[embedding |-> q, top_k |-> top_k]>>
    /\ UNCHANGED <<companies, pc, batch_size, i, k, enhanced_company, trace, cur,
                   fresh, gap, faults>>

(* the steps of batch_enrich_companies *)
RunStep ==
    \/ StartRun
    \/ Enrich
    \/ Embed
    \/ AppendCompany
    \/ Sleep
    \/ BatchEnd
    \/ Cancel

Next == RunStep \/ Search

NextF == RunStep \/ Fault

(* the processor on records that are mappings: batch runs whose capability *)
(* calls may fail and that may be cancelled, and searches between them     *)
Spec == Init /\ [][Next]_vars

(* the batch runs alone, on a list that may also hold elements that are no *)
(* mappings, and with unexpected exceptions in the loop body               *)
SpecF == InitF /\ [][NextF]_vars

----------------------------------------------------------------------------
(* Properties *)

Stored == 1..Len(enriched_companies)

(* every attribute of the input record is in the output, unchanged *)
DerivedFrom(e, company) ==
    \A key \in DOMAIN company.members :
        key \in DOMAIN e /\ e[key] = company.members[key]

NonEmptyText(parts) == \E n \in DOMAIN parts : parts[n] # ""

(* the steps of a run that is not cancelled *)
Progress == Enrich \/ Embed \/ AppendCompany \/ Sleep \/ BatchEnd

Stage ==
    CASE pc = "enrich" -> 0 [] pc = "embed" -> 1 [] pc = "append" -> 2
      [] pc = "sleep" -> 3 [] OTHER -> 4

(* how far the run is: the records begun, then the statement reached *)
Position == 5 * (i + k) + Stage

C1_Final ==
    (pc = "done" /\ fresh) =>
        /\ Len(enriched_companies) = Len(companies)
        /\ \A n \in Stored :
              /\ DerivedFrom(enriched_companies[n], companies[n])
              /\ trace[n].src = n

C1_CanStep ==
    pc \in Running => (i + k <= Len(companies) /\ ENABLED Progress)

C1_Advances ==
    (pc \in Running /\ pc' \in Running) => Position' > Position

(* C1: a batch run that starts on an empty collection terminates (a run in *)
(* progress can always take its next step, every step brings it further,   *)
(* and it never goes beyond the last record) with exactly one              *)
(* EnrichedRecord per input record, the n-th one built from the n-th input *)
(* record, whatever the batch size and whichever capability calls failed.  *)
C1_Completeness == [](C1_Final /\ C1_CanStep) /\ [][C1_Advances]_vars

C1_Witness ==
    /\ pc = "done"
    /\ fresh
    /\ Len(companies) = 2
    /\ companies[1] # companies[2]
    /\ trace[1].path = "fallback"
    /\ trace[2].embFailed

(* C2: a record whose step raised an error that the two fallbacks did not   *)
(* absorb is emitted exactly once, as the original record plus an all-zero  *)
(* embedding and nothing else, and the run goes on: no run is aborted, and  *)
(* no record is emitted twice.                                              *)
C2_FailureIsolation ==
    /\ pc # "aborted"
    /\ fresh => \A n, m \in Stored : trace[n].src = trace[m].src => n = m
    /\ \A n \in Stored :
          trace[n].path = "item" =>
              enriched_companies[n] =
                  ("embedding" :> ZeroVector) @@ companies[trace[n].src].members

(* C3: enrich_company_description does not raise for a mapping, whatever    *)
(* attributes it lacks; a record whose enrichment call failed has a         *)
(* non-empty fallback description, empty projectTypes and                   *)
(* architectSpecialties, complexity and typicalScale "medium"; and the run  *)
(* still returns one record per input record.                               *)
C3_FallbackTotality ==
    /\ pc = "enrich" /\ IsMapping(Batch[k]) =>
          \A response \in AiResponses :
              ~enrich_company_description(Batch[k], response).raised
    /\ \A n \in Stored :
          trace[n].path # "ai" =>
              /\ {"aiDescription", "projectTypes", "architectSpecialties",
                  "complexity", "typicalScale"} \subseteq DOMAIN enriched_companies[n]
              /\ NonEmptyText(enriched_companies[n]["aiDescription"])
              /\ enriched_companies[n]["projectTypes"] = <<>>
              /\ enriched_companies[n]["architectSpecialties"] = <<>>
              /\ enriched_companies[n]["complexity"] = "medium"
              /\ enriched_companies[n]["typicalScale"] = "medium"
    /\ (pc = "done" /\ fresh) => Len(enriched_companies) = Len(companies)

C3_Witness ==
    /\ pc = "done"
    /\ fresh
    /\ Len(companies) = 2
    /\ companies[2] = JsonObject(RecNameOnly)
    /\ \A n \in Stored : trace[n].path = "fallback"

(* C4: every record of the collection carries all seven enrichment fields, *)
(* whichever path emitted it.                                              *)
C4_AllFieldsPresent ==
    \A n \in Stored : EnrichmentFields \subseteq DOMAIN enriched_companies[n]

(* what the code does instead (checked under SpecF): the path that emitted *)
(* a record decides its enrichment fields: those of the parsed response on *)
(* the AI path, the five of lines 116-120 on the enrichment fallback, none *)
(* on the per-item fallback                                                *)
FieldsByPath ==
    \A n \in Stored :
        LET have == DOMAIN enriched_companies[n] \cap EnrichmentFields
            own == DOMAIN companies[trace[n].src].members \cap EnrichmentFields
        IN  /\ trace[n].path = "ai" => have = trace[n].fields \cup own
            /\ trace[n].path = "fallback" =>
                  have = {"aiDescription", "projectTypes", "architectSpecialties",
                          "complexity", "typicalScale"} \cup own
            /\ trace[n].path = "item" => have = own

(* C5: every element of the collection, in every state of a run, has an     *)
(* embedding of length D, which is all-zero exactly when its embedding call *)
(* failed or the per-item fallback emitted it; a record whose embedding     *)
(* call failed keeps the fields the enrichment gave it.                     *)
C5_EmbeddingDimension ==
    /\ Len(trace) = Len(enriched_companies)
    /\ \A n \in Stored :
          /\ "embedding" \in DOMAIN enriched_companies[n]
          /\ VecLen(enriched_companies[n]["embedding"]) = D
          /\ IsZero(enriched_companies[n]["embedding"])
                 <=> (trace[n].embFailed \/ trace[n].path = "item")
          /\ trace[n].path # "item" =>
                 {"searchableText", "aiDescription"}
                     \subseteq DOMAIN enriched_companies[n]

(* process([r1, r2], batchSize=1) where the embedding fails for r2 only *)
C5_Witness ==
    /\ pc = "sleep"
    /\ batch_size = 1
    /\ i = 1
    /\ fresh
    /\ Len(enriched_companies) = 2
    /\ ~trace[1].embFailed /\ ~IsZero(enriched_companies[1]["embedding"])
    /\ trace[2].embFailed /\ trace[2].path = "ai"
    /\ IsZero(enriched_companies[2]["embedding"])

(* C6: no record with an all-zero embedding is in a search result, and a   *)
(* query whose embedding fell back to the zero vector finds nothing.       *)
C6_ZeroVectorExclusion ==
    /\ \A p \in DOMAIN results : ~IsZero(results[p]["embedding"])
    /\ \A j \in DOMAIN lastQuery :
          IsZero(lastQuery[j].embedding) => results = <<>>

C6_Witness ==
    /\ lastQuery # <<>>
    /\ results # <<>>
    /\ \E n \in Stored : IsZero(enriched_companies[n]["embedding"])

SimOf(q, n) == Cosine(q, enriched_companies[n]["embedding"])

SimEQ(s, t) == ~SimGT(s, t) /\ ~SimGT(t, s)

Survivors(q) == {n \in Stored : SimGT(SimOf(q, n), Threshold)}

(* the place of record n among the survivors: behind those that are more   *)
(* similar, and behind those equally similar that come first               *)
Rank(q, n) ==
    1 + Cardinality({m \in Survivors(q) :
                        \/ SimGT(SimOf(q, m), SimOf(q, n))
                        \/ (SimEQ(SimOf(q, m), SimOf(q, n)) /\ m < n)})

Reference(q, top_k) ==
    LET size == IF top_k < Cardinality(Survivors(q)) THEN top_k
                ELSE Cardinality(Survivors(q))
    IN  [p \in 1..size |->
            LET n == CHOOSE m \in Survivors(q) : Rank(q, m) = p
            IN  ("similarity_score" :> SimOf(q, n)) @@ enriched_companies[n]]

(* C7: the result of a search is the first top_k of: the records strictly  *)
(* more similar to the query than the threshold, most similar first,       *)
(* equally similar ones in collection order, each with its own score; it   *)
(* is empty for an empty collection.                                       *)
C7_SearchResult ==
    \A j \in DOMAIN lastQuery :
        /\ Len(results) = Len(Reference(lastQuery[j].embedding, lastQuery[j].top_k))
        /\ \A p \in DOMAIN results :
              results[p] = Reference(lastQuery[j].embedding, lastQuery[j].top_k)[p]
        /\ enriched_companies = <<>> => results = <<>>

C7_Witness ==
    /\ lastQuery # <<>>
    /\ Len(results) = 2
    /\ results[1]["embedding"] = E2
    /\ results[2]["embedding"] = E1
    /\ enriched_companies[1]["embedding"] = E1

(* C8: a search leaves the collection as it was (length, order, elements), *)
(* no stored record ever has a similarity_score, and every element of a    *)
(* result is a stored record plus the score of this query.                 *)
C8_SearchReadOnly ==
    [][/\ lastQuery' # <<>> /\ <<lastQuery, results>>' # <<lastQuery, results>>
          => enriched_companies' = enriched_companies
       /\ \A n \in DOMAIN enriched_companies' :
             "similarity_score" \notin DOMAIN enriched_companies'[n]
       /\ \A p \in DOMAIN results' :
             \E n \in DOMAIN enriched_companies :
                 results'[p] =
                     ("similarity_score" :>
                          Cosine(lastQuery'[1].embedding,
                                 enriched_companies[n]["embedding"]))
                     @@ enriched_companies[n]]_vars

C8_Witness ==
    /\ lastQuery # <<>>
    /\ lastQuery[1].top_k = 1
    /\ Len(results) = 1
    /\ Len(enriched_companies) = 2

(* C9: when a record is about to be processed and is not the first of the  *)
(* run, the short delay has been slept since the record before it was      *)
(* emitted, and the long delay too when it is the first of its batch.      *)
C9_Pacing ==
    (pc = "enrich" /\ i + k > 1) =>
        /\ gap >= ShortDelay
        /\ k = 1 => gap >= LongDelay

(* C10: after every completed batch run the collection holds one entry per *)
(* input record.                                                           *)
C10_OneEntryPerRecord ==
    pc = "done" => Len(enriched_companies) = Len(companies)

(* what does hold across runs and searches: a stored entry keeps its       *)
(* fields and its position                                                 *)
StoredEntriesKept ==
    [][/\ Len(enriched_companies') >= Len(enriched_companies)
       /\ \A n \in Stored : enriched_companies'[n] = enriched_companies[n]]_vars

====
